---- MODULE Spec2Model ----
(***************************************************************************)
(* Model of the tolcan ORM core: Transaction and the transaction() helper  *)
(* (core/transaction.ts), QueryBuilder (core/query-builder.ts), the static *)
(* Model operations (core/model.ts) and Database.query (core/database.ts). *)
(***************************************************************************)
EXTENDS Integers, Sequences, FiniteSets, TLC

VARIABLES
    \* ---- Transaction object and its pinned PoolClient ----
    committed,      \* Transaction.committed
    rolledBack,     \* Transaction.rolledBack
    released,       \* number of client.release() calls on the pinned client
    clientLog,      \* statements sent with client.query on the pinned client
    lastCall,       \* last Transaction method called and how it ended
    nCalls,         \* number of Transaction method calls made so far
    awaiting,       \* commit() / rollback() calls that await their statement, oldest first
    \* ---- transaction(callback) helper ----
    pc,             \* position of the helper
    acquired,       \* database.getClient() resolved
    caught,         \* error caught by the helper's catch block
    cbResult,       \* how the unit of work ended
    outcome,        \* how the helper's promise settled
    nWork,          \* steps taken by the unit of work
    workTrace,      \* which steps the unit of work has taken, in order
    \* ---- QueryBuilder, Model and Database.query ----
    qb,             \* the QueryBuilder's fields
    calls,          \* the where() arguments given to qb so far, in call order
    sent,           \* Database.query calls made by the last terminal operation
    qResult,        \* the last terminal operation: its data, the provider's reply, how it ended
    nOps,           \* terminal operations run so far
    fluent,         \* the orderBy*/limit/offset calls made on qb, in order
    \* ---- Model layer ----
    input,          \* the arguments of the last Model operation
    inst,           \* the record instance the last Model operation left
    \* ---- the store behind the connection provider ----
    visible,        \* rows visible to every connection
    pending,        \* rows written in the open transaction of the pinned connection
    inTx,           \* the pinned connection's session is inside BEGIN ... COMMIT/ROLLBACK
    \* ---- Database (connection provider) ----
    pool,           \* Database.pool
    poolsMade,      \* number of Pool objects constructed so far
    dbLast,         \* last Database method called and how it ended
    dbLog,          \* executors that Database.query handed a statement to
    nDb,            \* Database method calls made so far
    ending          \* disconnect() calls that await pool.end()

trxVars == <<committed, rolledBack, released, clientLog, lastCall, nCalls, awaiting>>
helperVars == <<pc, acquired, caught, cbResult, outcome, nWork, workTrace>>
qbVars == <<qb, calls, sent, qResult, nOps, fluent>>
modelVars == <<input, inst>>
storeVars == <<visible, pending, inTx>>
dbVars == <<pool, poolsMade, dbLast, dbLog, nDb, ending>>
vars == <<trxVars, helperVars, qbVars, modelVars, storeVars, dbVars>>

----------------------------------------------------------------------------
\* Bounds
MaxCalls == 5       \* Transaction method calls in a free call sequence
MaxWork == 3        \* steps of the unit of work inside the helper
MaxWhere == 2       \* where() calls on one builder
MaxOps == 1         \* terminal operations in one run
MaxClauses == 3     \* orderBy / orderByMultiple / limit / offset calls on one builder
MaxDbCalls == 4     \* Database method calls in one run

----------------------------------------------------------------------------
\* Errors
NoError == "none"
ErrAlreadyCommitted == "Transaction already committed"
ErrAlreadyRolledBack == "Transaction already rolled back"
ErrQuery(text) == [BEGIN |-> "DatabaseError(BEGIN)",
                   COMMIT |-> "DatabaseError(COMMIT)",
                   ROLLBACK |-> "DatabaseError(ROLLBACK)",
                   STMT |-> "DatabaseError(STMT)",
                   END |-> "DatabaseError(END)"][text]
ErrConnect == "DatabaseError(connect)"
WorkErrors == {"WorkError"}
WorkValues == {"v1", "v2"}

\* The Transaction together with its pinned client, as one value.
TrxState == [committed |-> committed, rolledBack |-> rolledBack,
             released |-> released, log |-> clientLog]

NewTransaction == [committed |-> FALSE, rolledBack |-> FALSE,
                   released |-> 0, log |-> <<>>]

\* client.query(text): the statement is sent; ok says whether it succeeded.
ClientQuery(t, text, by) == [t EXCEPT !.log = Append(@, [text |-> text, by |-> by])]

\* client.release()
ClientRelease(t) == [t EXCEPT !.released = @ + 1]

\* Transaction.begin()
TrxBegin(t, ok, by) ==
    [t |-> ClientQuery(t, "BEGIN", by),
     err |-> IF ok THEN NoError ELSE ErrQuery("BEGIN")]

\* Transaction.commit() without the rolledBack guard
TrxCommit_NoRolledBackGuard(t, ok, by) ==
    IF t.committed THEN [t |-> t, err |-> ErrAlreadyCommitted]
    ELSE IF ~ok THEN [t |-> ClientQuery(t, "COMMIT", by), err |-> ErrQuery("COMMIT")]
    ELSE [t |-> ClientRelease([ClientQuery(t, "COMMIT", by) EXCEPT !.committed = TRUE]),
          err |-> NoError]

\* Transaction.commit()
TrxCommit(t, ok, by) ==
    IF t.committed THEN [t |-> t, err |-> ErrAlreadyCommitted]
    ELSE IF t.rolledBack THEN [t |-> t, err |-> ErrAlreadyRolledBack]
    ELSE IF ~ok THEN [t |-> ClientQuery(t, "COMMIT", by), err |-> ErrQuery("COMMIT")]
    ELSE [t |-> ClientRelease([ClientQuery(t, "COMMIT", by) EXCEPT !.committed = TRUE]),
          err |-> NoError]

\* Transaction.rollback() without the early return when already rolled back
TrxRollback_NoEarlyReturn(t, ok, by) ==
    IF t.committed THEN [t |-> t, err |-> ErrAlreadyCommitted]
    ELSE IF ~ok THEN [t |-> ClientQuery(t, "ROLLBACK", by), err |-> ErrQuery("ROLLBACK")]
    ELSE [t |-> ClientRelease([ClientQuery(t, "ROLLBACK", by) EXCEPT !.rolledBack = TRUE]),
          err |-> NoError]

\* Transaction.rollback() without the committed guard
TrxRollback_NoCommittedGuard(t, ok, by) ==
    IF t.rolledBack THEN [t |-> t, err |-> NoError]
    ELSE IF ~ok THEN [t |-> ClientQuery(t, "ROLLBACK", by), err |-> ErrQuery("ROLLBACK")]
    ELSE [t |-> ClientRelease([ClientQuery(t, "ROLLBACK", by) EXCEPT !.rolledBack = TRUE]),
          err |-> NoError]

\* Transaction.rollback()
TrxRollback(t, ok, by) ==
    IF t.committed THEN [t |-> t, err |-> ErrAlreadyCommitted]
    ELSE IF t.rolledBack THEN [t |-> t, err |-> NoError]
    ELSE IF ~ok THEN [t |-> ClientQuery(t, "ROLLBACK", by), err |-> ErrQuery("ROLLBACK")]
    ELSE [t |-> ClientRelease([ClientQuery(t, "ROLLBACK", by) EXCEPT !.rolledBack = TRUE]),
          err |-> NoError]

\* Transaction.isCommitted() / isRolledBack(); active is neither.
isCommitted == committed
isRolledBack == rolledBack
isActive == ~committed /\ ~rolledBack

----------------------------------------------------------------------------
\* QueryBuilder (core/query-builder.ts)

\* SQL text is kept as a sequence of tokens: literal text, and positional
\* placeholders "$n".
Txt(str) == [k |-> "txt", s |-> str, n |-> 0]
Ph(num) == [k |-> "ph", s |-> "$", n |-> num]

\* Values of a field-to-value mapping given to where(): null/undefined, a
\* scalar, or an array.
Null == [kind |-> "null", vals |-> <<>>]
Scalar(v) == [kind |-> "scalar", vals |-> <<v>>]
Array(vs) == [kind |-> "array", vals |-> vs]
FieldValues == {Null, Scalar(1), Array(<<2, 3>>)}

\* Mappings are kept in Object.entries order: a sequence of key/value pairs.
\* The empty mapping, every one-key mapping, and two-key mappings.
FieldMaps ==
    {<<>>}
    \cup { <<[key |-> "id", val |-> v]>> : v \in FieldValues }
    \cup { <<[key |-> "status", val |-> Scalar(4)], [key |-> "id", val |-> v]>> :
             v \in FieldValues }

\* Raw conditions as the README writes them: '<col> <op> $1' with its value,
\* and a condition without placeholder and without value.
RawFragments ==
    { [cond |-> <<Txt("age >"), Ph(1)>>, hasValue |-> TRUE, value |-> 18],
      [cond |-> <<Txt("created_at >"), Ph(1)>>, hasValue |-> TRUE, value |-> 20],
      [cond |-> <<Txt("deleted_at IS NULL")>>, hasValue |-> FALSE, value |-> 0] }

\* The argument of one where() call.
MapArg(m) == [kind |-> "map", map |-> m, cond |-> <<>>, hasValue |-> FALSE, value |-> 0]
RawArg(f) == [kind |-> "raw", map |-> <<>>, cond |-> f.cond, hasValue |-> f.hasValue,
              value |-> f.value]
WhereArgs == {MapArg(m) : m \in FieldMaps} \cup {RawArg(f) : f \in RawFragments}

\* The one mapping {id: 1}, and the counts given to limit() in a chain
\* of clause calls.
IdMaps == {MapArg(<<[key |-> "id", val |-> Scalar(1)]>>)}
PageSizes == {5, 10}

NoClient == "undefined"
Pool == "pool"
Clients == {NoClient, "pinned"}
TableName == "users"

\* new QueryBuilder(database, tableName, client, primaryKeyType, primaryKey)
NewQueryBuilder(tableName, client, primaryKeyType, primaryKey) ==
    [tableName |-> tableName,
     whereConditions |-> <<>>,
     whereParams |-> <<>>,
     orderByClause |-> <<>>,
     limitClause |-> <<>>,
     offsetClause |-> <<>>,
     paramCounter |-> 1,
     client |-> client,
     primaryKeyType |-> primaryKeyType,
     primaryKey |-> primaryKey]

\* val.map(() => `$${this.paramCounter++}`).join(', ')
Placeholders(counter, count) ==
    [i \in 1..(IF count = 0 THEN 0 ELSE 2 * count - 1) |->
        IF i % 2 = 1 THEN Ph(counter + (i - 1) \div 2) ELSE Txt(", ")]

\* where() that counts an array as one parameter
WhereEntry_ArrayCountsOnce(b, e) ==
    IF e.val.kind = "null"
    THEN [b EXCEPT !.whereConditions = Append(@, <<Txt(e.key), Txt("IS NULL")>>)]
    ELSE IF e.val.kind = "array"
    THEN [b EXCEPT
            !.whereConditions =
                Append(@, <<Txt(e.key), Txt("IN (")>>
                          \o Placeholders(b.paramCounter, Len(e.val.vals))
                          \o <<Txt(")")>>),
            !.whereParams = @ \o e.val.vals,
            !.paramCounter = @ + 1]
    ELSE [b EXCEPT
            !.whereConditions = Append(@, <<Txt(e.key), Txt("="), Ph(b.paramCounter)>>),
            !.whereParams = Append(@, e.val.vals[1]),
            !.paramCounter = @ + 1]

\* where(): one entry of a field-to-value mapping
WhereEntry(b, e) ==
    IF e.val.kind = "null"
    THEN [b EXCEPT !.whereConditions = Append(@, <<Txt(e.key), Txt("IS NULL")>>)]
    ELSE IF e.val.kind = "array"
    THEN [b EXCEPT
            !.whereConditions =
                Append(@, <<Txt(e.key), Txt("IN (")>>
                          \o Placeholders(b.paramCounter, Len(e.val.vals))
                          \o <<Txt(")")>>),
            !.whereParams = @ \o e.val.vals,
            !.paramCounter = @ + Len(e.val.vals)]
    ELSE [b EXCEPT
            !.whereConditions = Append(@, <<Txt(e.key), Txt("="), Ph(b.paramCounter)>>),
            !.whereParams = Append(@, e.val.vals[1]),
            !.paramCounter = @ + 1]

RECURSIVE WhereEntries(_, _)
WhereEntries(b, es) ==
    IF es = <<>> THEN b ELSE WhereEntries(WhereEntry(b, Head(es)), Tail(es))

\* where(condition, value)
Where(b, arg) ==
    IF arg.kind = "raw"
    THEN [b EXCEPT !.whereConditions = Append(@, arg.cond),
                   !.whereParams = IF arg.hasValue THEN Append(@, arg.value) ELSE @]
    ELSE WhereEntries(b, arg.map)

\* An OrderBy entry; direction "" is a direction left out.
Order(column, direction) == [column |-> column, direction |-> direction]

\* orderBy(column, direction = 'ASC'): `ORDER BY ${column} ${direction}`
OrderBy(b, column, direction) ==
    [b EXCEPT !.orderByClause =
        <<<<Order(column, IF direction = "" THEN "ASC" ELSE direction)>>>>]

\* orderByMultiple(orders): `ORDER BY ${orderParts.join(', ')}`
OrderByMultiple(b, orders) ==
    [b EXCEPT !.orderByClause =
        <<[i \in 1..Len(orders) |->
            Order(orders[i].column,
                  IF orders[i].direction = "" THEN "ASC" ELSE orders[i].direction)]>>]

\* limit(count)
Limit(b, count) == [b EXCEPT !.limitClause = <<count>>]

\* offset(count) that keeps an offset already set
Offset_KeepsFirst(b, count) ==
    IF b.offsetClause = <<>> THEN [b EXCEPT !.offsetClause = <<count>>] ELSE b

\* offset(count)
Offset(b, count) == [b EXCEPT !.offsetClause = <<count>>]

\* buildWhereClause(): '' is <<>>, 'WHERE c1 AND c2 ...' is <<conditions>>
BuildWhereClause(b) ==
    IF Len(b.whereConditions) = 0 THEN <<>> ELSE <<b.whereConditions>>

\* Database.query(text, params, client) that always takes the pool
DbQuery_AlwaysPool(text, params, client) ==
    [executor |-> Pool, text |-> text, params |-> params]

\* Database.query(text, params, client): executor = client || pool
DbQuery(text, params, client) ==
    [executor |-> IF client # NoClient THEN client ELSE Pool,
     text |-> text,
     params |-> params]

\* What the provider answers to one statement.
NullRowCount == -1
FailReply == [ok |-> FALSE, rows |-> <<>>, rowCount |-> NullRowCount]
Row1 == <<[key |-> "id", val |-> 1], [key |-> "name", val |-> 5]>>
Row2 == <<[key |-> "id", val |-> 2], [key |-> "name", val |-> 6]>>
RowReplies ==
    {FailReply} \cup
    { [ok |-> TRUE, rows |-> rs, rowCount |-> Len(rs)] : rs \in {<<>>, <<Row1, Row2>>} }
CountReplies ==
    {FailReply} \cup
    { [ok |-> TRUE, rows |-> <<rc>>, rowCount |-> 1] :
        rc \in { <<[key |-> "count", val |-> c]>> : c \in {2} } }
DeleteReplies ==
    {FailReply} \cup
    { [ok |-> TRUE, rows |-> <<>>, rowCount |-> c] : c \in {NullRowCount, 0, 1, 2} }
\* An UPDATE without RETURNING answers with no rows.
UpdateReplies ==
    {FailReply} \cup { [ok |-> TRUE, rows |-> <<>>, rowCount |-> c] : c \in {0, 1} }
\* Raw statements with their parameters.
RawSqls ==
    { [sql |-> "SELECT NOW()", params |-> <<>>],
      [sql |-> "SELECT * FROM users WHERE age > $1", params |-> <<18>>] }

ErrDeleteNoWhere == "Delete operation requires a WHERE clause for safety"
ErrModelUpdateNoWhere == "Update requires a WHERE clause"
ErrModelDeleteNoWhere == "Delete requires a WHERE clause"

\* A terminal operation that sends its statement again when it failed
Awaited_Retries(b, q, r, ret) ==
    [b |-> b, q |-> IF r.ok THEN <<q>> ELSE <<q, q>>,
     err |-> IF r.ok THEN NoError ELSE ErrQuery("STMT"),
     ret |-> IF r.ok THEN ret ELSE <<>>]

\* A terminal operation that awaited one Database.query call.
Awaited(b, q, r, ret) ==
    [b |-> b, q |-> <<q>>,
     err |-> IF r.ok THEN NoError ELSE ErrQuery("STMT"),
     ret |-> IF r.ok THEN ret ELSE <<>>]

\* A terminal operation that threw before sending anything.
ThrewEarly(b, err) == [b |-> b, q |-> <<>>, err |-> err, ret |-> <<>>]

\* select(columns)
QBSelect(b, columns, r) ==
    Awaited(b,
            DbQuery([verb |-> "SELECT", table |-> b.tableName, columns |-> columns,
                     set |-> <<>>, where |-> BuildWhereClause(b),
                     orderBy |-> b.orderByClause, limit |-> b.limitClause,
                     offset |-> b.offsetClause],
                    b.whereParams, b.client),
            r, r.rows)

\* Placeholders in one condition / in a list of conditions, left to right.
PhOf(cond) == SelectSeq(cond, LAMBDA t : t.k = "ph")
RECURSIVE PhList(_)
PhList(conds) ==
    IF conds = <<>> THEN <<>>
    ELSE [i \in 1..Len(PhOf(Head(conds))) |-> PhOf(Head(conds))[i].n] \o PhList(Tail(conds))

\* condition.replace(/\$\d+/g, () => `$${whereParamIndex++}`)
ReplacePlaceholders(cond, index) ==
    [j \in 1..Len(cond) |->
        IF cond[j].k = "ph"
        THEN Ph(index + Len(PhOf(SubSeq(cond, 1, j - 1))))
        ELSE cond[j]]

\* update() with the recorded where conditions used as they are
RebuildConditions_NoRenumbering(conds, index) == conds

\* update(): the loop that rebuilds the where conditions
RECURSIVE RebuildConditions(_, _)
RebuildConditions(conds, index) ==
    IF conds = <<>> THEN <<>>
    ELSE <<IF Len(PhOf(Head(conds))) > 0
           THEN ReplacePlaceholders(Head(conds), index)
           ELSE Head(conds)>>
         \o RebuildConditions(Tail(conds), index + Len(PhOf(Head(conds))))

ColumnsOf(data) == [i \in 1..Len(data) |-> data[i].key]
ValuesOf(data) == [i \in 1..Len(data) |-> data[i].val]

\* update(data)
\* update() that stores the renumbered conditions in the builder
QBUpdate_StoresRenumbered(b, data, r) ==
    LET columns == ColumnsOf(data)
        values == ValuesOf(data)
        paramOffset == Len(values)
        whereConditions == RebuildConditions(b.whereConditions, paramOffset + 1)
        setClause == [i \in 1..Len(columns) |-> <<Txt(columns[i]), Txt("="), Ph(i)>>]
        whereClause == IF Len(whereConditions) > 0 THEN <<whereConditions>> ELSE <<>>
        allParams == values \o b.whereParams
    IN Awaited([b EXCEPT !.whereConditions = whereConditions,
                         !.paramCounter = @ + paramOffset],
               DbQuery([verb |-> "UPDATE", table |-> b.tableName, columns |-> <<>>,
                        set |-> setClause, where |-> whereClause,
                        orderBy |-> <<>>, limit |-> <<>>, offset |-> <<>>],
                       allParams, b.client),
               r, r.rows)

QBUpdate(b, data, r) ==
    LET columns == ColumnsOf(data)
        values == ValuesOf(data)
        paramOffset == Len(values)
        whereConditions == RebuildConditions(b.whereConditions, paramOffset + 1)
        setClause == [i \in 1..Len(columns) |-> <<Txt(columns[i]), Txt("="), Ph(i)>>]
        whereClause == IF Len(whereConditions) > 0 THEN <<whereConditions>> ELSE <<>>
        allParams == values \o b.whereParams
    IN Awaited(b,
               DbQuery([verb |-> "UPDATE", table |-> b.tableName, columns |-> <<>>,
                        set |-> setClause, where |-> whereClause,
                        orderBy |-> <<>>, limit |-> <<>>, offset |-> <<>>],
                       allParams, b.client),
               r, r.rows)

\* delete() without the WHERE guard
QBDelete_NoGuard(b, r) ==
    Awaited(b,
            DbQuery([verb |-> "DELETE", table |-> b.tableName, columns |-> <<>>,
                     set |-> <<>>, where |-> BuildWhereClause(b),
                     orderBy |-> <<>>, limit |-> <<>>, offset |-> <<>>],
                    b.whereParams, b.client),
            r, <<IF r.rowCount = NullRowCount \/ r.rowCount = 0 THEN 0 ELSE r.rowCount>>)

\* delete(): returns result.rowCount || 0
QBDelete(b, r) ==
    IF BuildWhereClause(b) = <<>>
    THEN ThrewEarly(b, ErrDeleteNoWhere)
    ELSE Awaited(b,
                 DbQuery([verb |-> "DELETE", table |-> b.tableName, columns |-> <<>>,
                          set |-> <<>>, where |-> BuildWhereClause(b),
                          orderBy |-> <<>>, limit |-> <<>>, offset |-> <<>>],
                         b.whereParams, b.client),
                 r, <<IF r.rowCount = NullRowCount \/ r.rowCount = 0 THEN 0 ELSE r.rowCount>>)

\* count(): returns parseInt(result.rows[0].count)
QBCount(b, r) ==
    Awaited(b,
            DbQuery([verb |-> "SELECT COUNT(*)", table |-> b.tableName, columns |-> <<>>,
                     set |-> <<>>, where |-> BuildWhereClause(b),
                     orderBy |-> <<>>, limit |-> <<>>, offset |-> <<>>],
                    b.whereParams, b.client),
            r, IF r.ok THEN <<r.rows[1][1].val>> ELSE <<>>)

\* first() that keeps a limit already set
QBFirst_KeepsLimit(b, r) ==
    LET res == QBSelect(IF b.limitClause = <<>> THEN Limit(b, 1) ELSE b, <<"*">>, r)
    IN [res EXCEPT !.ret = IF Len(res.ret) > 0 THEN <<res.ret[1]>> ELSE <<>>]

\* first(): limit(1), select(), first row or null (<<>>)
QBFirst(b, r) ==
    LET res == QBSelect(Limit(b, 1), <<"*">>, r)
    IN [res EXCEPT !.ret = IF Len(res.ret) > 0 THEN <<res.ret[1]>> ELSE <<>>]

\* A raw statement is its text alone.
RawText(sql) ==
    [verb |-> sql, table |-> "", columns |-> <<>>, set |-> <<>>, where |-> <<>>,
     orderBy |-> <<>>, limit |-> <<>>, offset |-> <<>>]

\* raw(sql, params) that appends the builder's WHERE parameters
QBRaw_WithWhereParams(b, sql, params, r) ==
    Awaited(b, DbQuery(RawText(sql), params \o b.whereParams, b.client), r, r.rows)

\* raw(sql, params): returns result.rows
QBRaw(b, sql, params, r) == Awaited(b, DbQuery(RawText(sql), params, b.client), r, r.rows)

\* Model.query(client)
ModelQuery(client) == NewQueryBuilder(TableName, client, "serial", "id")

\* options of Model.update / Model.delete: absent, without where, or with a
\* where mapping (an empty mapping is truthy in `if (options?.where)`).
NoOptions == [present |-> FALSE, hasWhere |-> FALSE, where |-> <<>>, client |-> NoClient]
WhereOptions ==
    {NoOptions}
    \cup { [present |-> TRUE, hasWhere |-> FALSE, where |-> <<>>, client |-> c] : c \in Clients }
    \cup { [present |-> TRUE, hasWhere |-> TRUE, where |-> m, client |-> c] :
             m \in FieldMaps, c \in Clients }

\* Model.delete(options)
ModelDelete(options, r) ==
    LET builder == ModelQuery(options.client)
    IN IF options.hasWhere
       THEN QBDelete(Where(builder, MapArg(options.where)), r)
       ELSE ThrewEarly(builder, ErrModelDeleteNoWhere)

\* Data given to update(): column/value pairs in Object.keys order.
Datas ==
    { <<[key |-> "name", val |-> 5]>>,
      <<[key |-> "name", val |-> 5], [key |-> "email", val |-> 6]>> }

\* Data given to insert() / create(): without the primary key, and with it.
CreateDatas ==
    { <<[key |-> "name", val |-> 5]>>,
      <<[key |-> "id", val |-> 0], [key |-> "name", val |-> 5]>>,
      <<[key |-> "id", val |-> 7], [key |-> "name", val |-> 5]>> }

----------------------------------------------------------------------------
\* Model classes and QueryBuilder.insert (core/model.ts, core/query-builder.ts)

\* Data values are numbers; 0 is the falsy one (as '' is among strings), and
\* a key that is absent reads as undefined, which is falsy too.
HasKey(data, key) == \E i \in 1..Len(data) : data[i].key = key
Truthy(data, key) == \E i \in 1..Len(data) : data[i].key = key /\ data[i].val # 0
GetField(data, key) == (CHOOSE i \in 1..Len(data) : data[i].key = key)
ValueOf(data, key) == data[GetField(data, key)].val

\* obj[key] = val: in place when the key exists, appended otherwise
SetField(data, key, val) ==
    IF HasKey(data, key)
    THEN [i \in 1..Len(data) |->
            IF data[i].key = key THEN [key |-> key, val |-> val] ELSE data[i]]
    ELSE Append(data, [key |-> key, val |-> val])

\* Object.assign(target, source)
RECURSIVE Assign(_, _)
Assign(target, source) ==
    IF source = <<>> THEN target
    ELSE Assign(SetField(target, Head(source).key, Head(source).val), Tail(source))

Without(data, key) == SelectSeq(data, LAMBDA f : f.key # key)

\* new (this as any)(): the model classes declare static fields and methods
\* only, so a new instance has no own property.
NewInstance == <<>>

\* const instance = new (this as any)(); Object.assign(instance, row)
Materialize(row) == Assign(NewInstance, row)

\* results.map(row => instance): also the one row or null of find / create
Materialized(res) == [res EXCEPT !.ret = [i \in 1..Len(@) |-> Materialize(@[i])]]

\* A value that is a function; a row holds data values only.
Method == -2

\* toJSON() that leaves the primary key out
ToJSON_WithoutId(self) ==
    SelectSeq(self, LAMBDA f : f.val # Method /\ f.key # "id")

\* toJSON(): every own property whose value is not a function
ToJSON(self) == SelectSeq(self, LAMBDA f : f.val # Method)

\* Model.update(data, options)
ModelUpdate(data, options, r) ==
    LET builder == ModelQuery(options.client)
    IN IF options.hasWhere
       THEN Materialized(QBUpdate(Where(builder, MapArg(options.where)), data, r))
       ELSE ThrewEarly(builder, ErrModelUpdateNoWhere)

\* A class is its name and its static fields; "" is a static field left unset.
UserClass ==
    [name |-> <<"U", "s", "e", "r">>, tableName |-> "users",
     primaryKey |-> "id", primaryKeyType |-> "serial"]
ProductClass ==
    [name |-> <<"P", "r", "o", "d", "u", "c", "t">>, tableName |-> "products",
     primaryKey |-> "id", primaryKeyType |-> "uuid"]
ProductCategoryClass ==
    [name |-> <<"P", "r", "o", "d", "u", "c", "t", "C", "a", "t", "e", "g", "o", "r", "y">>,
     tableName |-> "", primaryKey |-> "", primaryKeyType |-> ""]
UnnamedUserClass == [UserClass EXCEPT !.tableName = ""]
Classes == {UserClass, ProductClass, ProductCategoryClass, UnnamedUserClass}

\* String.prototype.toLowerCase, character by character
LowerCase == [U |-> "u", P |-> "p", C |-> "c"]
ToLowerCase(chars) ==
    [i \in 1..Len(chars) |->
        IF chars[i] \in DOMAIN LowerCase THEN LowerCase[chars[i]] ELSE chars[i]]

RECURSIVE Join(_)
Join(chars) == IF chars = <<>> THEN "" ELSE Head(chars) \o Join(Tail(chars))

\* static getTableName(): `${className.toLowerCase()}s`
GetTableName(cls) ==
    IF cls.tableName # "" THEN cls.tableName
    ELSE Join(ToLowerCase(cls.name)) \o "s"

\* static getPrimaryKey(), getPrimaryKeyType()
GetPrimaryKey(cls) == IF cls.primaryKey # "" THEN cls.primaryKey ELSE "id"
GetPrimaryKeyType(cls) == IF cls.primaryKeyType # "" THEN cls.primaryKeyType ELSE "serial"

\* static query(client)
ClassQuery(cls, client) ==
    NewQueryBuilder(GetTableName(cls), client, GetPrimaryKeyType(cls), GetPrimaryKey(cls))

\* randomUUID() returns one of these.
GeneratedIds == {101, 102}

\* insert(): the data with the generated identifier injected
InsertData(b, data, uuid) ==
    IF b.primaryKeyType = "uuid" /\ ~Truthy(data, b.primaryKey)
    THEN SetField(data, b.primaryKey, uuid)
    ELSE data

\* insert(): `const insertData = { ...data }` makes a second object, and the
\* generated identifier is assigned to that one.
InsertObjects(b, data, uuid) ==
    [data |-> data, insertData |-> InsertData(b, data, uuid)]

\* insert(): the statement and its parameters
InsertQuery(b, data, uuid) ==
    LET insertData == InsertObjects(b, data, uuid).insertData
        columns == ColumnsOf(insertData)
        values == ValuesOf(insertData)
    IN DbQuery([verb |-> "INSERT", table |-> b.tableName, columns |-> columns,
                set |-> [i \in 1..Len(values) |-> <<Ph(i)>>], where |-> <<>>,
                orderBy |-> <<>>, limit |-> <<>>, offset |-> <<>>],
               values, b.client)

\* insert(data): returns result.rows[0]
QBInsert(b, data, uuid, r) ==
    Awaited(b, InsertQuery(b, data, uuid), r,
            IF Len(r.rows) > 0 THEN <<r.rows[1]>> ELSE <<>>)

\* QueryOptions: absent, or with / without a client
NoQueryOptions == [present |-> FALSE, client |-> NoClient]
QueryOptions == {NoQueryOptions} \cup {[present |-> TRUE, client |-> c] : c \in Clients}

\* Model.create(data, options) with options.client dropped
ModelCreate_IgnoresClient(cls, data, options, uuid, r) ==
    QBInsert(ClassQuery(cls, NoClient), data, uuid, r)

\* Model.create(data, options): the instance is the returned row
ModelCreate(cls, data, options, uuid, r) ==
    Materialized(QBInsert(ClassQuery(cls, options.client), data, uuid, r))

\* SelectOptions: where / orderBy / limit / offset are <<>> when left out;
\* orderBy is one OrderBy entry or an array of them.
SelectOptionsSet ==
    { [present |-> FALSE, where |-> <<>>, orderBy |-> <<>>, limit |-> <<>>,
       offset |-> <<>>, client |-> NoClient] } \cup
    { [present |-> TRUE, where |-> w, orderBy |-> o, limit |-> l, offset |-> f,
       client |-> c] :
        w \in {<<>>, <<(<<[key |-> "id", val |-> Scalar(1)]>>)>>},
        o \in {<<>>,
               <<[isArray |-> FALSE, orders |-> <<Order("created_at", "DESC")>>]>>,
               <<[isArray |-> FALSE, orders |-> <<Order("name", "")>>]>>,
               <<[isArray |-> TRUE, orders |-> <<Order("name", "DESC"), Order("id", "")>>]>>},
        l \in {<<>>, <<0>>, <<10>>},
        f \in {<<>>, <<0>>, <<20>>},
        c \in Clients }

\* Model.findAll(options): the builder it hands to select()
FindAllBuilder(cls, options) ==
    LET b0 == ClassQuery(cls, options.client)
        b1 == IF options.where # <<>> THEN Where(b0, MapArg(options.where[1])) ELSE b0
        b2 == IF options.orderBy = <<>> THEN b1
              ELSE IF options.orderBy[1].isArray
                   THEN OrderByMultiple(b1, options.orderBy[1].orders)
                   ELSE OrderBy(b1, options.orderBy[1].orders[1].column,
                                options.orderBy[1].orders[1].direction)
        b3 == IF options.limit # <<>> /\ options.limit[1] # 0
              THEN Limit(b2, options.limit[1]) ELSE b2
    IN IF options.offset # <<>> /\ options.offset[1] # 0
       THEN Offset(b3, options.offset[1]) ELSE b3

\* Model.findAll(options): every row becomes an instance
ModelFindAll(cls, options, r) ==
    Materialized(QBSelect(FindAllBuilder(cls, options), <<"*">>, r))

\* Model.findOne(options): findAll({...options, limit: 1}), first or null
ModelFindOne(cls, options, r) ==
    LET res == ModelFindAll(cls, [options EXCEPT !.limit = <<1>>], r)
    IN [res EXCEPT !.ret = IF Len(res.ret) > 0 THEN <<res.ret[1]>> ELSE <<>>]

\* { [primaryKey]: id }
PrimaryKeyIs(cls, id) == MapArg(<<[key |-> GetPrimaryKey(cls), val |-> id]>>)

\* Model.find(id, options): where({[primaryKey]: id}).first()
ModelFind(cls, id, options, r) ==
    Materialized(QBFirst(Where(ClassQuery(cls, options.client), PrimaryKeyIs(cls, id)), r))

\* Model.count(where, options)
ModelCount(cls, where, options, r) ==
    LET builder == ClassQuery(cls, options.client)
    IN QBCount(IF where # <<>> THEN Where(builder, MapArg(where[1])) ELSE builder, r)

\* Model.raw and a failed instance delete() build no QueryBuilder.
NoBuilder == NewQueryBuilder("", NoClient, "", "")

\* Model.raw(sql, params, options)
ModelRaw(sql, params, options, r) ==
    Awaited(NoBuilder, DbQuery(RawText(sql), params, options.client), r, r.rows)

\* Instances: own data fields in property order; values are numbers.
Instances ==
    { <<[key |-> "name", val |-> 5]>>,
      <<[key |-> "id", val |-> 0], [key |-> "name", val |-> 5]>>,
      <<[key |-> "id", val |-> 7], [key |-> "name", val |-> 5]>>,
      <<[key |-> "name", val |-> 5], [key |-> "id", val |-> 7], [key |-> "email", val |-> 6]>> }

\* where({[primaryKey]: this[primaryKey]}) on the class's builder
ByPrimaryKey(cls, self, client) ==
    Where(ClassQuery(cls, client),
          PrimaryKeyIs(cls, Scalar(ValueOf(self, GetPrimaryKey(cls)))))

\* save(options): self is the instance afterwards
\* save() that inserts the row when its UPDATE matched none
ModelSave_RecreatesRow(cls, self, options, uuid, r) ==
    LET primaryKey == GetPrimaryKey(cls)
        data == Without(self, primaryKey)
    IN IF Truthy(self, primaryKey)
       THEN LET res == QBUpdate(ByPrimaryKey(cls, self, options.client), data, r)
                ins == QBInsert(ClassQuery(cls, options.client), self, uuid, r)
            IN IF r.ok /\ r.rowCount = 0
               THEN [b |-> ins.b, q |-> res.q \o ins.q, err |-> ins.err,
                     ret |-> ins.ret, self |-> self]
               ELSE [b |-> res.b, q |-> res.q, err |-> res.err, ret |-> res.ret,
                     self |-> IF Len(res.ret) > 0 THEN Assign(self, res.ret[1]) ELSE self]
       ELSE LET res == QBInsert(ClassQuery(cls, options.client), data, uuid, r)
            IN [b |-> res.b, q |-> res.q, err |-> res.err, ret |-> res.ret,
                self |-> IF Len(res.ret) > 0 THEN Assign(self, res.ret[1]) ELSE self]

ModelSave(cls, self, options, uuid, r) ==
    LET primaryKey == GetPrimaryKey(cls)
        data == Without(self, primaryKey)
    IN IF Truthy(self, primaryKey)
       THEN LET res == QBUpdate(ByPrimaryKey(cls, self, options.client), data, r)
            IN [b |-> res.b, q |-> res.q, err |-> res.err, ret |-> res.ret,
                self |-> IF Len(res.ret) > 0 THEN Assign(self, res.ret[1]) ELSE self]
       ELSE LET res == QBInsert(ClassQuery(cls, options.client), data, uuid, r)
            IN [b |-> res.b, q |-> res.q, err |-> res.err, ret |-> res.ret,
                self |-> IF Len(res.ret) > 0 THEN Assign(self, res.ret[1]) ELSE self]

ErrNoPrimaryKeyValue == "Cannot delete a model without a primary key value"

\* delete(options) of an instance: returns deleted > 0
InstanceDelete(cls, self, options, r) ==
    IF ~Truthy(self, GetPrimaryKey(cls))
    THEN ThrewEarly(NoBuilder, ErrNoPrimaryKeyValue)
    ELSE LET res == QBDelete(ByPrimaryKey(cls, self, options.client), r)
         IN [res EXCEPT !.ret = IF res.err = NoError THEN <<res.ret[1] > 0>> ELSE <<>>]

\* The store answers an INSERT ... RETURNING * with the inserted row, the
\* key filled in by the sequence when the statement carries none.
InsertedRow(q, key, nextId) ==
    LET row == [i \in 1..Len(q.params) |-> [key |-> q.text.columns[i], val |-> q.params[i]]]
    IN IF HasKey(row, key) THEN row ELSE <<[key |-> key, val |-> nextId]>> \o row

InsertReply(q, key, nextId) ==
    [ok |-> TRUE, rows |-> <<InsertedRow(q, key, nextId)>>, rowCount |-> 1]

\* The store: a statement that succeeded on the pinned connection inside a
\* transaction is pending until COMMIT; everything else is visible at once.
StoreState == [visible |-> visible, pending |-> pending, inTx |-> inTx]

StoreApply(st, executor, text, row) ==
    IF executor = Pool
    THEN IF text = "INSERT" THEN [st EXCEPT !.visible = @ \cup {row}] ELSE st
    ELSE IF text = "BEGIN" THEN [st EXCEPT !.inTx = TRUE]
    ELSE IF text = "COMMIT"
         THEN [visible |-> st.visible \cup st.pending, pending |-> {}, inTx |-> FALSE]
    ELSE IF text = "ROLLBACK"
         THEN [st EXCEPT !.pending = {}, !.inTx = FALSE]
    ELSE IF text = "INSERT"
         THEN IF st.inTx THEN [st EXCEPT !.pending = @ \cup {row}]
              ELSE [st EXCEPT !.visible = @ \cup {row}]
    ELSE st

SetStore(st) ==
    /\ visible' = st.visible
    /\ pending' = st.pending
    /\ inTx' = st.inTx

NextRowId == Cardinality(visible \cup pending) + 1

\* No orderBy, orderByMultiple, limit or offset call was made yet.
NoFluent == <<>>

NoResult == [op |-> "none", data |-> <<>>, held |-> <<>>, reply |-> FailReply,
             kind |-> "none", err |-> NoError, ret |-> <<>>, json |-> <<>>]

InitQB ==
    /\ qb \in {ModelQuery(client) : client \in Clients}
    /\ calls = <<>>
    /\ sent = <<>>
    /\ qResult = NoResult
    /\ nOps = 0
    /\ fluent = NoFluent

SetTrx(t) ==
    /\ committed' = t.committed
    /\ rolledBack' = t.rolledBack
    /\ released' = t.released
    /\ clientLog' = t.log

NoCall == [op |-> "none", err |-> NoError]

InitTrx ==
    /\ committed = FALSE
    /\ rolledBack = FALSE
    /\ released = 0
    /\ clientLog = <<>>
    /\ lastCall = NoCall
    /\ nCalls = 0
    /\ awaiting = <<>>

InitHelper ==
    /\ pc = "start"
    /\ acquired = FALSE
    /\ caught = NoError
    /\ cbResult = [kind |-> "pending", val |-> "none"]
    /\ outcome = [kind |-> "pending", val |-> "none"]
    /\ nWork = 0
    /\ workTrace = <<>>

\* A record instance: its own data fields, as key/value pairs.
NoInstance == <<>>
NoInput == [op |-> "none"]

InitModel ==
    /\ input = NoInput
    /\ inst = NoInstance

InitStore ==
    /\ visible = {}
    /\ pending = {}
    /\ inTx = FALSE

\* Database.pool: null, or the n-th Pool constructed.
NoPool == [id |-> 0]
NoDbCall == [op |-> "none", client |-> NoClient, err |-> NoError]

InitDb ==
    /\ pool = NoPool
    /\ poolsMade = 0
    /\ dbLast = NoDbCall
    /\ dbLog = <<>>
    /\ nDb = 0
    /\ ending = 0

Init == InitTrx /\ InitHelper /\ InitQB /\ InitModel /\ InitStore /\ InitDb

----------------------------------------------------------------------------
\* Non-overlapping calls on one Transaction constructed by application code
\* ("Manual Transaction Control"): each call runs to completion.

Called(op, r) ==
    /\ SetTrx(r.t)
    /\ lastCall' = [op |-> op, err |-> r.err]
    /\ nCalls' = nCalls + 1
    /\ UNCHANGED <<helperVars, qbVars, modelVars, storeVars, dbVars>>

Begin ==
    /\ nCalls < MaxCalls
    /\ \E ok \in BOOLEAN : Called("begin", TrxBegin(TrxState, ok, "app"))
    /\ UNCHANGED awaiting

Commit ==
    /\ nCalls < MaxCalls
    /\ \E ok \in BOOLEAN : Called("commit", TrxCommit(TrxState, ok, "app"))
    /\ UNCHANGED awaiting

Rollback ==
    /\ nCalls < MaxCalls
    /\ \E ok \in BOOLEAN : Called("rollback", TrxRollback(TrxState, ok, "app"))
    /\ UNCHANGED awaiting

NextTrx == Begin \/ Commit \/ Rollback

SpecTrx == Init /\ [][NextTrx]_vars

----------------------------------------------------------------------------
\* transaction(callback): one action per await of the helper and of the unit
\* of work it runs.

Pending == [kind |-> "pending", val |-> "none"]
Resolved(v) == [kind |-> "resolved", val |-> v]
Rejected(e) == [kind |-> "rejected", val |-> e]
Returned(v) == [kind |-> "returned", val |-> v]
Threw(e) == [kind |-> "threw", val |-> e]

StatementOf == [begin |-> "BEGIN", commit |-> "COMMIT", rollback |-> "ROLLBACK"]

\* A Transaction method called inside the helper; the statement it sent, if
\* it succeeded, takes effect in the store.
TrxCall(op, r) ==
    /\ SetTrx(r.t)
    /\ lastCall' = [op |-> op, err |-> r.err]
    /\ nCalls' = nCalls + 1
    /\ awaiting' = awaiting
    /\ SetStore(IF Len(r.t.log) > Len(clientLog) /\ r.err = NoError
                THEN StoreApply(StoreState, "pinned", StatementOf[op], <<>>)
                ELSE StoreState)

\* const client = await database.getClient(); const trx = new Transaction(client)
HelperAcquire ==
    /\ pc = "start"
    /\ \E ok \in BOOLEAN :
        IF ok
        THEN /\ acquired' = TRUE
             /\ pc' = "begin"
             /\ outcome' = outcome
        ELSE /\ acquired' = FALSE
             /\ pc' = "done"
             /\ outcome' = Rejected(ErrConnect)
    /\ UNCHANGED <<trxVars, caught, cbResult, nWork, workTrace, qbVars, modelVars, storeVars, dbVars>>

\* try { await trx.begin();
HelperBegin ==
    /\ pc = "begin"
    /\ \E ok \in BOOLEAN :
        LET r == TrxBegin(TrxState, ok, "helper") IN
        /\ TrxCall("begin", r)
        /\ IF r.err = NoError
           THEN pc' = "callback" /\ caught' = caught
           ELSE pc' = "catch" /\ caught' = r.err
    /\ UNCHANGED <<acquired, cbResult, outcome, nWork, workTrace, qbVars, modelVars, dbVars>>

\* A step of the unit of work that ended with error err: the unit of work
\* either handles it and goes on, or fails with it.
WorkStepEnds(step, err) ==
    /\ nWork' = nWork + 1
    /\ workTrace' = Append(workTrace, step)
    /\ \/ /\ pc' = "callback"
          /\ UNCHANGED <<cbResult, caught>>
       \/ /\ err # NoError
          /\ cbResult' = Threw(err)
          /\ caught' = err
          /\ pc' = "catch"
    /\ UNCHANGED <<acquired, outcome, qbVars, modelVars, dbVars>>

\* The unit of work runs a statement through trx.getClient().
WorkQuery ==
    /\ pc = "callback"
    /\ nWork < MaxWork
    /\ \E ok \in BOOLEAN :
        /\ SetTrx(ClientQuery(TrxState, "STMT", "work"))
        /\ UNCHANGED <<lastCall, nCalls, awaiting, storeVars>>
        /\ WorkStepEnds("query", IF ok THEN NoError ELSE ErrQuery("STMT"))

\* The unit of work calls Model.create(data, {client: trx.getClient()}).
WorkCreate ==
    /\ pc = "callback"
    /\ nWork < MaxWork
    /\ \E data \in Datas, ok \in BOOLEAN :
        LET options == [present |-> TRUE, client |-> "pinned"]
            q == ModelCreate(UserClass, data, options, 0, FailReply).q[1]
            r == IF ok THEN InsertReply(q, "id", NextRowId) ELSE FailReply
            res == ModelCreate(UserClass, data, options, 0, r)
        IN /\ clientLog' = IF q.executor = "pinned"
                           THEN Append(clientLog, [text |-> "INSERT", by |-> "work"])
                           ELSE clientLog
           /\ SetStore(IF ok THEN StoreApply(StoreState, q.executor, "INSERT", r.rows[1])
                              ELSE StoreState)
           /\ WorkStepEnds("create", res.err)
    /\ UNCHANGED <<committed, rolledBack, released, lastCall, nCalls, awaiting>>

\* The unit of work calls trx.commit() itself.
WorkCommit ==
    /\ pc = "callback"
    /\ nWork < MaxWork
    /\ \E ok \in BOOLEAN :
        LET r == TrxCommit(TrxState, ok, "work") IN
        /\ TrxCall("commit", r)
        /\ WorkStepEnds("commit", r.err)

\* The unit of work calls trx.rollback() itself.
WorkRollback ==
    /\ pc = "callback"
    /\ nWork < MaxWork
    /\ \E ok \in BOOLEAN :
        LET r == TrxRollback(TrxState, ok, "work") IN
        /\ TrxCall("rollback", r)
        /\ WorkStepEnds("rollback", r.err)

\* const result = await callback(trx): normal return
WorkReturn ==
    /\ pc = "callback"
    /\ \E v \in WorkValues : cbResult' = Returned(v)
    /\ pc' = "commit"
    /\ UNCHANGED <<trxVars, acquired, caught, outcome, nWork, workTrace, qbVars, modelVars, storeVars, dbVars>>

\* await callback(trx) rejects with an error of the unit of work's own
WorkThrow ==
    /\ pc = "callback"
    /\ \E e \in WorkErrors :
        /\ cbResult' = Threw(e)
        /\ caught' = e
    /\ pc' = "catch"
    /\ UNCHANGED <<trxVars, acquired, outcome, nWork, workTrace, qbVars, modelVars, storeVars, dbVars>>

\* return result without awaiting trx.commit()
HelperCommit_NoCommit ==
    /\ pc = "commit"
    /\ pc' = "done"
    /\ outcome' = Resolved(cbResult.val)
    /\ UNCHANGED <<trxVars, acquired, caught, cbResult, nWork, workTrace, qbVars, modelVars, storeVars, dbVars>>

\* await trx.commit(); return result;
HelperCommit ==
    /\ pc = "commit"
    /\ \E ok \in BOOLEAN :
        LET r == TrxCommit(TrxState, ok, "helper") IN
        /\ TrxCall("commit", r)
        /\ IF r.err = NoError
           THEN /\ pc' = "done"
                /\ outcome' = Resolved(cbResult.val)
                /\ caught' = caught
           ELSE /\ pc' = "catch"
                /\ outcome' = outcome
                /\ caught' = r.err
    /\ UNCHANGED <<acquired, cbResult, nWork, workTrace, qbVars, modelVars, dbVars>>

\* } catch (error) { await trx.rollback(); throw error; }
HelperCatch ==
    /\ pc = "catch"
    /\ \E ok \in BOOLEAN :
        LET r == TrxRollback(TrxState, ok, "helper") IN
        /\ TrxCall("rollback", r)
        /\ outcome' = IF r.err = NoError THEN Rejected(caught) ELSE Rejected(r.err)
    /\ pc' = "done"
    /\ UNCHANGED <<acquired, caught, cbResult, nWork, workTrace, qbVars, modelVars, dbVars>>

NextHelper ==
    \/ HelperAcquire \/ HelperBegin
    \/ WorkQuery \/ WorkCreate \/ WorkCommit \/ WorkRollback \/ WorkReturn \/ WorkThrow
    \/ HelperCommit \/ HelperCatch

SpecHelper == Init /\ [][NextHelper]_vars

HelperDone == pc = "done"

\* Statements the helper itself sent / the unit of work sent, in order.
LogBy(who) == SelectSeq(clientLog, LAMBDA s : s.by = who)
Texts(log) == [i \in 1..Len(log) |-> log[i].text]

----------------------------------------------------------------------------
\* Overlapping calls on one Transaction: commit() and rollback() run up to
\* their `await this.client.query(...)`, and go on when the statement ends.

Awaiting == "awaiting"

\* commit(), up to `await this.client.query('COMMIT')`
CommitStarts ==
    /\ nCalls < MaxCalls
    /\ IF committed \/ rolledBack
       THEN /\ Called("commit", [t |-> TrxState,
                                 err |-> IF committed THEN ErrAlreadyCommitted
                                         ELSE ErrAlreadyRolledBack])
            /\ UNCHANGED awaiting
       ELSE /\ Called("commit", [t |-> ClientQuery(TrxState, "COMMIT", "app"), err |-> Awaiting])
            /\ awaiting' = Append(awaiting, "commit")

\* rollback(), up to `await this.client.query('ROLLBACK')`
RollbackStarts ==
    /\ nCalls < MaxCalls
    /\ IF committed \/ rolledBack
       THEN /\ Called("rollback", [t |-> TrxState,
                                   err |-> IF committed THEN ErrAlreadyCommitted ELSE NoError])
            /\ UNCHANGED awaiting
       ELSE /\ Called("rollback", [t |-> ClientQuery(TrxState, "ROLLBACK", "app"), err |-> Awaiting])
            /\ awaiting' = Append(awaiting, "rollback")

\* The statement of the oldest awaiting call ends: on success the call sets
\* its flag and releases the connection, on failure it throws.
Settles ==
    /\ awaiting # <<>>
    /\ \E ok \in BOOLEAN :
        LET op == Head(awaiting) IN
        /\ SetTrx(IF ~ok THEN TrxState
                  ELSE IF op = "commit"
                       THEN ClientRelease([TrxState EXCEPT !.committed = TRUE])
                       ELSE ClientRelease([TrxState EXCEPT !.rolledBack = TRUE]))
        /\ lastCall' = [op |-> op, err |-> IF ok THEN NoError ELSE ErrQuery(StatementOf[op])]
    /\ awaiting' = Tail(awaiting)
    /\ UNCHANGED <<nCalls, helperVars, qbVars, modelVars, storeVars, dbVars>>

NextOverlap == CommitStarts \/ RollbackStarts \/ Settles

SpecOverlap == Init /\ [][NextOverlap]_vars

----------------------------------------------------------------------------
\* Operations on one QueryBuilder, and the static Model operations that
\* build their own.

\* builder.where(...), chained before the terminal operation
WhereWith(args) ==
    /\ nOps = 0
    /\ Len(calls) < MaxWhere
    /\ \E arg \in args :
        /\ qb' = Where(qb, arg)
        /\ calls' = Append(calls, arg)
    /\ UNCHANGED <<trxVars, helperVars, modelVars, storeVars, dbVars, sent, qResult, nOps, fluent>>

WhereCall == WhereWith(WhereArgs)

\* A call of orderBy, orderByMultiple, limit or offset that left builder b,
\* chained before the terminal operation.
ClauseCall(kind, val, b) ==
    /\ nOps = 0
    /\ Len(fluent) < MaxClauses
    /\ qb' = b
    /\ fluent' = Append(fluent, [kind |-> kind, val |-> val])
    /\ UNCHANGED <<trxVars, helperVars, modelVars, storeVars, dbVars, calls, sent, qResult, nOps>>

\* builder.limit(count)
LimitWith(counts) ==
    \E count \in counts :
        /\ qb.limitClause # <<count>>
        /\ ClauseCall("limit", <<count>>, Limit(qb, count))

LimitCall == LimitWith({10})

\* builder.offset(count)
OffsetCall ==
    \E count \in {20, 40} :
        /\ qb.offsetClause # <<count>>
        /\ ClauseCall("offset", <<count>>, Offset(qb, count))

\* builder.orderBy(column, direction), the direction given or left out
OrderByCall ==
    \E o \in {Order("name", "DESC"), Order("id", "")} :
        ClauseCall("orderBy", <<o>>, OrderBy(qb, o.column, o.direction))

\* builder.orderByMultiple(orders), entries with and without a direction
OrderByMultipleCall ==
    \E os \in {<<Order("name", "DESC"), Order("id", "")>>} :
        ClauseCall("orderByMultiple", os, OrderByMultiple(qb, os))

\* The end of a terminal operation: its Database.query call, if it made
\* one, and how it returned or threw.
\* data is the object the caller passed, held the same object as the caller
\* holds it when the operation has ended.
EndedHolding(op, data, held, r, res) ==
    /\ qb' = res.b
    /\ sent' = res.q
    /\ qResult' = [op |-> op,
                   data |-> data,
                   held |-> held,
                   reply |-> r,
                   kind |-> IF res.err = NoError THEN "returned" ELSE "threw",
                   err |-> res.err,
                   ret |-> res.ret,
                   json |-> <<>>]
    /\ nOps' = nOps + 1
    /\ UNCHANGED <<trxVars, helperVars, storeVars, dbVars, fluent>>

\* An operation that assigns to no property of the object it is given.
Ended(op, data, r, res) == EndedHolding(op, data, data, r, res)

Select ==
    /\ nOps < MaxOps
    /\ \E r \in RowReplies : Ended("select", <<>>, r, QBSelect(qb, <<"*">>, r))
    /\ UNCHANGED <<calls, modelVars>>

Count ==
    /\ nOps < MaxOps
    /\ \E r \in CountReplies : Ended("count", <<>>, r, QBCount(qb, r))
    /\ UNCHANGED <<calls, modelVars>>

First ==
    /\ nOps < MaxOps
    /\ \E r \in RowReplies : Ended("first", <<>>, r, QBFirst(qb, r))
    /\ UNCHANGED <<calls, modelVars>>

Delete ==
    /\ nOps < MaxOps
    /\ \E r \in DeleteReplies : Ended("delete", <<>>, r, QBDelete(qb, r))
    /\ UNCHANGED <<calls, modelVars>>

Update ==
    /\ nOps < MaxOps
    /\ \E data \in Datas, r \in RowReplies : Ended("update", data, r, QBUpdate(qb, data, r))
    /\ UNCHANGED <<calls, modelVars>>

\* insert(data) on the builder
Insert ==
    /\ nOps < MaxOps
    /\ \E data \in CreateDatas, uuid \in GeneratedIds, ok \in BOOLEAN :
        LET q == InsertQuery(qb, data, uuid)
            r == IF ok THEN InsertReply(q, qb.primaryKey, 1) ELSE FailReply
        IN EndedHolding("insert", data, InsertObjects(qb, data, uuid).data, r,
                        QBInsert(qb, data, uuid, r))
    /\ UNCHANGED <<calls, modelVars>>

\* raw(sql, params) on the builder
Raw ==
    /\ nOps < MaxOps
    /\ \E s \in RawSqls, r \in RowReplies :
        Ended("raw", s, r, QBRaw(qb, s.sql, s.params, r))
    /\ UNCHANGED <<calls, modelVars>>

\* A static Model operation, or one of an instance, builds its own
\* QueryBuilder with Model.query(); what it was called with is kept.
StaticCall(op, cls, data, options) ==
    /\ nOps < MaxOps
    /\ calls = <<>> /\ qb = ModelQuery(NoClient)
    /\ input' = [op |-> op, cls |-> cls, data |-> data, options |-> options]

StaticUpdate ==
    \E data \in Datas, options \in WhereOptions, r \in RowReplies :
        /\ StaticCall("Model.update", UserClass, data, options)
        /\ Ended("Model.update", data, r, ModelUpdate(data, options, r))
        /\ calls' = IF options.hasWhere THEN <<MapArg(options.where)>> ELSE <<>>
        /\ UNCHANGED inst

StaticDelete ==
    \E options \in WhereOptions, r \in DeleteReplies :
        /\ StaticCall("Model.delete", UserClass, <<>>, options)
        /\ Ended("Model.delete", <<>>, r, ModelDelete(options, r))
        /\ calls' = IF options.hasWhere THEN <<MapArg(options.where)>> ELSE <<>>
        /\ UNCHANGED inst

Find ==
    \E cls \in {UserClass, ProductClass}, id \in {Scalar(0), Scalar(1)},
       options \in QueryOptions, r \in RowReplies :
        /\ StaticCall("Model.find", cls, id, options)
        /\ Ended("Model.find", <<>>, r, ModelFind(cls, id, options, r))
        /\ calls' = <<PrimaryKeyIs(cls, id)>>
        /\ UNCHANGED inst

FindAll ==
    \E cls \in Classes, options \in SelectOptionsSet, r \in RowReplies :
        /\ StaticCall("Model.findAll", cls, <<>>, options)
        /\ Ended("Model.findAll", <<>>, r, ModelFindAll(cls, options, r))
        /\ calls' = IF options.where # <<>> THEN <<MapArg(options.where[1])>> ELSE <<>>
        /\ UNCHANGED inst

FindOne ==
    \E cls \in {UserClass}, options \in SelectOptionsSet, r \in RowReplies :
        /\ StaticCall("Model.findOne", cls, <<>>, options)
        /\ Ended("Model.findOne", <<>>, r, ModelFindOne(cls, options, r))
        /\ calls' = IF options.where # <<>> THEN <<MapArg(options.where[1])>> ELSE <<>>
        /\ UNCHANGED inst

Create ==
    \E cls \in Classes, data \in CreateDatas, options \in QueryOptions,
       uuid \in GeneratedIds, ok \in BOOLEAN :
        LET q == InsertQuery(ClassQuery(cls, options.client), data, uuid)
            r == IF ok THEN InsertReply(q, GetPrimaryKey(cls), 1) ELSE FailReply
        IN /\ StaticCall("Model.create", cls, data, options)
           /\ EndedHolding("Model.create", data,
                           InsertObjects(ClassQuery(cls, options.client), data, uuid).data,
                           r, ModelCreate(cls, data, options, uuid, r))
           /\ UNCHANGED <<calls, inst>>

StaticCount ==
    \E cls \in {UserClass}, where \in {<<>>, <<(<<[key |-> "id", val |-> Scalar(1)]>>)>>},
       options \in QueryOptions, r \in CountReplies :
        /\ StaticCall("Model.count", cls, where, options)
        /\ Ended("Model.count", <<>>, r, ModelCount(cls, where, options, r))
        /\ calls' = IF where # <<>> THEN <<MapArg(where[1])>> ELSE <<>>
        /\ UNCHANGED inst

StaticRaw ==
    \E s \in RawSqls, options \in QueryOptions, r \in RowReplies :
        /\ StaticCall("Model.raw", UserClass, s, options)
        /\ Ended("Model.raw", s, r, [ModelRaw(s.sql, s.params, options, r) EXCEPT !.b = qb])
        /\ UNCHANGED <<calls, inst>>

\* instance.save(options)
Save ==
    \E cls \in {UserClass, ProductClass}, self \in Instances, options \in QueryOptions,
       uuid \in GeneratedIds :
        LET primaryKey == GetPrimaryKey(cls)
            q == ModelSave(cls, self, options, uuid, FailReply).q[1]
            replies == IF q.text.verb = "INSERT"
                       THEN {FailReply, InsertReply(q, primaryKey, 1)}
                       ELSE UpdateReplies
        IN \E r \in replies :
            LET res == ModelSave(cls, self, options, uuid, r) IN
            /\ StaticCall("save", cls, self, options)
            /\ Ended("save", Without(self, primaryKey), r, res)
            /\ calls' = IF Truthy(self, primaryKey)
                        THEN <<PrimaryKeyIs(cls, Scalar(ValueOf(self, primaryKey)))>>
                        ELSE <<>>
            /\ inst' = res.self

\* instance.delete(options)
DeleteInstance ==
    \E cls \in {UserClass, ProductClass}, self \in Instances, options \in QueryOptions,
       r \in DeleteReplies :
        LET primaryKey == GetPrimaryKey(cls)
            res == InstanceDelete(cls, self, options, r)
        IN /\ StaticCall("instance.delete", cls, self, options)
           /\ IF Truthy(self, primaryKey)
              THEN /\ Ended("instance.delete", <<>>, r, res)
                   /\ calls' = <<PrimaryKeyIs(cls, Scalar(ValueOf(self, primaryKey)))>>
              ELSE /\ Ended("instance.delete", <<>>, r, [res EXCEPT !.b = qb])
                   /\ calls' = calls
           /\ inst' = self

NextQuery ==
    \/ WhereCall \/ LimitCall
    \/ Select \/ Count \/ First \/ Delete \/ Update
    \/ StaticUpdate \/ StaticDelete

SpecQuery == Init /\ [][NextQuery]_vars

\* The operations whose result is built from rows with Object.assign.
Materializing ==
    {"Model.find", "Model.findAll", "Model.findOne", "Model.create", "Model.update"}

\* toJSON() on every instance the last operation returned
Serialize ==
    /\ qResult.op \in Materializing
    /\ qResult.kind = "returned"
    /\ qResult.ret # <<>>
    /\ qResult.json = <<>>
    /\ qResult' = [qResult EXCEPT !.json = [i \in 1..Len(qResult.ret) |-> ToJSON(qResult.ret[i])]]
    /\ UNCHANGED <<qb, calls, sent, nOps, fluent, modelVars, trxVars, helperVars,
                   storeVars, dbVars>>

\* Every terminal operation of a builder, after where() calls with one
\* mapping, and every operation of a model class and of an instance.
NextModel ==
    \/ WhereWith(IdMaps)
    \/ Select \/ Count \/ First \/ Delete \/ Update \/ Insert \/ Raw
    \/ StaticUpdate \/ StaticDelete
    \/ Find \/ FindAll \/ FindOne \/ Create \/ StaticCount \/ StaticRaw
    \/ Save \/ DeleteInstance
    \/ Serialize

SpecModel == Init /\ [][NextModel]_vars

\* The clause calls of one chain: where, orderBy, orderByMultiple, limit and
\* offset in any order and number, then select() or raw().
NextClauses ==
    \/ WhereWith(IdMaps)
    \/ OrderByCall \/ OrderByMultipleCall \/ LimitWith(PageSizes) \/ OffsetCall
    \/ Select \/ Raw

SpecClauses == Init /\ [][NextClauses]_vars

----------------------------------------------------------------------------
\* The connection provider (core/database.ts)

ErrAlreadyConnected == "Database already connected"
ErrNotConnected == "Database not connected. Call connect() first."

\* A Database method was called and ended, or reached its await, with err.
DbCall(op, client, err) ==
    /\ nDb < MaxDbCalls
    /\ nDb' = nDb + 1
    /\ dbLast' = [op |-> op, client |-> client, err |-> err]
    /\ UNCHANGED <<trxVars, helperVars, qbVars, modelVars, storeVars>>

\* The stated defaults of the optional settings.
Defaults ==
    [host |-> "localhost", port |-> 5432, ssl |-> FALSE, max |-> 20,
     idleTimeoutMillis |-> 30000, connectionTimeoutMillis |-> 2000]

\* A DatabaseConfig: an optional setting is <<>> when absent, <<v>> when
\* supplied.
Configs ==
    { [database |-> "mydb", user |-> "postgres", password |-> "password",
       host |-> h, port |-> n, ssl |-> b, max |-> n,
       idleTimeoutMillis |-> n, connectionTimeoutMillis |-> n] :
        h \in {<<>>, <<"db.internal">>},
        n \in {<<>>, <<0>>, <<10>>},
        b \in {<<>>, <<TRUE>>} }

\* setting || default: the default when the setting is absent or falsy
OrElse(setting, falsy, default) ==
    IF setting = <<>> \/ setting[1] = falsy THEN default ELSE setting[1]

\* The options connect() passes to new Pool(...)
PoolOptions(config) ==
    [host |-> OrElse(config.host, "", Defaults.host),
     port |-> OrElse(config.port, 0, Defaults.port),
     database |-> config.database,
     user |-> config.user,
     password |-> config.password,
     ssl |-> OrElse(config.ssl, FALSE, Defaults.ssl),
     max |-> OrElse(config.max, 0, Defaults.max),
     idleTimeoutMillis |-> OrElse(config.idleTimeoutMillis, 0, Defaults.idleTimeoutMillis),
     connectionTimeoutMillis |->
        OrElse(config.connectionTimeoutMillis, 0, Defaults.connectionTimeoutMillis)]

\* new Pool(options), remembered with the config it was made from
NewPool(id, config) == [id |-> id, config |-> config, options |-> PoolOptions(config)]

\* connect(config) that replaces a pool it already has
Connect_Reconnects ==
    /\ DbCall("connect", NoClient, NoError)
    /\ \E config \in Configs : pool' = NewPool(poolsMade + 1, config)
    /\ poolsMade' = poolsMade + 1
    /\ UNCHANGED <<dbLog, ending>>

\* connect(config)
Connect ==
    IF pool # NoPool
    THEN /\ DbCall("connect", NoClient, ErrAlreadyConnected)
         /\ UNCHANGED <<pool, poolsMade, dbLog, ending>>
    ELSE /\ DbCall("connect", NoClient, NoError)
         /\ \E config \in Configs : pool' = NewPool(poolsMade + 1, config)
         /\ poolsMade' = poolsMade + 1
         /\ UNCHANGED <<dbLog, ending>>

\* disconnect(), up to `await this.pool.end()`; without a pool it is done
Disconnect ==
    /\ DbCall("disconnect", NoClient, NoError)
    /\ ending' = IF pool # NoPool THEN ending + 1 ELSE ending
    /\ UNCHANGED <<pool, poolsMade, dbLog>>

\* disconnect(), from the end of pool.end(): `this.pool = null`, or the
\* rejection of pool.end() thrown on
Disconnected ==
    /\ ending > 0
    /\ ending' = ending - 1
    /\ \E ok \in BOOLEAN :
        /\ pool' = IF ok THEN NoPool ELSE pool
        /\ dbLast' = [op |-> "disconnected", client |-> NoClient,
                       err |-> IF ok THEN NoError ELSE ErrQuery("END")]
    /\ UNCHANGED <<trxVars, helperVars, qbVars, modelVars, storeVars, poolsMade, dbLog, nDb>>

\* query(text, params, client): executor = client || this.getPool()
Query ==
    \E client \in Clients :
        IF client = NoClient /\ pool = NoPool
        THEN /\ DbCall("query", client, ErrNotConnected)
             /\ UNCHANGED <<pool, poolsMade, dbLog, ending>>
        ELSE /\ \E ok \in BOOLEAN : DbCall("query", client, IF ok THEN NoError ELSE ErrQuery("STMT"))
             /\ dbLog' = Append(dbLog, IF client # NoClient
                                       THEN [executor |-> client, id |-> 0]
                                       ELSE [executor |-> Pool, id |-> pool.id])
             /\ UNCHANGED <<pool, poolsMade, ending>>

\* getClient(): this.getPool().connect()
GetClient ==
    /\ IF pool = NoPool
       THEN DbCall("getClient", NoClient, ErrNotConnected)
       ELSE \E ok \in BOOLEAN : DbCall("getClient", NoClient, IF ok THEN NoError ELSE ErrConnect)
    /\ UNCHANGED <<pool, poolsMade, dbLog, ending>>

NextDb == Connect \/ Disconnect \/ Disconnected \/ Query \/ GetClient

SpecDb == Init /\ [][NextDb]_vars

----------------------------------------------------------------------------
\* Properties of the Transaction state machine and of the helper

\* A step in which Transaction method op was called.
CallStep(op) == nCalls' = nCalls + 1 /\ lastCall'.op = op

\* C1: whenever the helper has settled after acquiring a connection, the
\* pinned connection has been released exactly once, whatever BEGIN, the
\* unit of work, COMMIT and ROLLBACK did.
C1_ReleasedExactlyOnce == (HelperDone /\ acquired) => released = 1

\* C6: commit() on a committed or rolled-back transaction, and rollback() on
\* a committed one, throw, send nothing, release nothing and leave the
\* committed/rolledBack flags as they were.
C6_IllegalTransitionsRejected ==
    [][ ( \/ CallStep("commit") /\ (committed \/ rolledBack)
          \/ CallStep("rollback") /\ committed )
        => /\ lastCall'.err \in {ErrAlreadyCommitted, ErrAlreadyRolledBack}
           /\ lastCall'.err = IF committed THEN ErrAlreadyCommitted
                              ELSE ErrAlreadyRolledBack
           /\ TrxState' = TrxState ]_vars

C6_Witness ==
    /\ rolledBack
    /\ lastCall = [op |-> "commit", err |-> ErrAlreadyRolledBack]
    /\ released = 1

\* C7: rollback() on a rolled-back transaction returns normally and changes
\* nothing: no statement, no second release, state still rolled-back, so
\* rollback();rollback() ends in the state one rollback() ends in.
C7_RollbackIdempotent ==
    [][ (CallStep("rollback") /\ rolledBack)
        => /\ lastCall'.err = NoError
           /\ TrxState' = TrxState
           /\ rolledBack' ]_vars

C7_Witness ==
    /\ rolledBack
    /\ lastCall = [op |-> "rollback", err |-> NoError]
    /\ nCalls = 2
    /\ Texts(clientLog) = <<"ROLLBACK">>
    /\ released = 1

\* C8: the transaction is never both committed and rolled back, the
\* connection has been released 0 times while it is active and exactly once
\* afterwards, and once it has left active its flags never change again.
C8_StateMachine ==
    /\ [](/\ ~(committed /\ rolledBack)
          /\ released = IF isActive THEN 0 ELSE 1)
    /\ [][ ~isActive => (committed' = committed /\ rolledBack' = rolledBack) ]_vars

C8_Witness ==
    /\ committed
    /\ released = 1
    /\ nCalls >= 4
    /\ lastCall.op = "rollback"

\* C9: when the unit of work failed with error e, the helper has sent
\* ROLLBACK and rejected with that same e.
C9_RollbackThenRethrow ==
    (HelperDone /\ cbResult.kind = "threw")
        => /\ outcome = Rejected(cbResult.val)
           /\ \E i \in 1..Len(clientLog) :
                clientLog[i] = [text |-> "ROLLBACK", by |-> "helper"]

\* The statements on the pinned connection are BEGIN, the unit of work's
\* statements, COMMIT, in that order, and the helper sent no ROLLBACK.
CommitPath ==
    /\ clientLog = <<[text |-> "BEGIN", by |-> "helper"]>>
                   \o LogBy("work")
                   \o <<[text |-> "COMMIT", by |-> "helper"]>>
    /\ \A i \in 1..Len(clientLog) :
         clientLog[i] # [text |-> "ROLLBACK", by |-> "helper"]

\* C10 as stated: whenever the unit of work returned v, the helper resolved
\* with v after BEGIN, the work's statements and COMMIT, and no ROLLBACK.
C10_AsStated ==
    (HelperDone /\ cbResult.kind = "returned")
        => (outcome = Resolved(cbResult.val) /\ CommitPath)

\* C10 amended: the same, when the helper's own commit() succeeded (the
\* unit of work left the transaction active and COMMIT succeeded);
\* otherwise the helper rejects.
C10_CommitPath ==
    (HelperDone /\ cbResult.kind = "returned")
        => IF caught = NoError
           THEN outcome = Resolved(cbResult.val) /\ CommitPath
           ELSE outcome.kind = "rejected"

C10_Witness ==
    /\ HelperDone
    /\ cbResult.kind = "returned"
    /\ outcome = Resolved(cbResult.val)
    /\ Len(LogBy("work")) >= 2
    /\ committed

\* C11: after a unit of work that created two records through the pinned
\* connection and then threw, the helper has rejected and neither record
\* is visible outside the transaction.
C11_RolledBackCreatesInvisible ==
    (HelperDone /\ workTrace = <<"create", "create">> /\ cbResult.kind = "threw")
        => (outcome.kind = "rejected" /\ visible = {})

C11_Witness ==
    /\ HelperDone
    /\ workTrace = <<"create", "create">>
    /\ cbResult = Threw("WorkError")
    /\ outcome = Rejected("WorkError")
    /\ Texts(clientLog) = <<"BEGIN", "INSERT", "INSERT", "ROLLBACK">>
    /\ rolledBack
    /\ visible = {} /\ pending = {}

----------------------------------------------------------------------------
\* Properties of the QueryBuilder and of the static Model operations

\* What the where() arguments given so far amount to: how many conditions,
\* and which values in which order.
RECURSIVE EntryValues(_)
EntryValues(es) ==
    IF es = <<>> THEN <<>> ELSE Head(es).val.vals \o EntryValues(Tail(es))

ArgValues(arg) ==
    IF arg.kind = "raw"
    THEN IF arg.hasValue THEN <<arg.value>> ELSE <<>>
    ELSE EntryValues(arg.map)

RECURSIVE SuppliedValues(_)
SuppliedValues(as) ==
    IF as = <<>> THEN <<>> ELSE ArgValues(Head(as)) \o SuppliedValues(Tail(as))

RECURSIVE SuppliedConditions(_)
SuppliedConditions(as) ==
    IF as = <<>> THEN 0
    ELSE (IF Head(as).kind = "raw" THEN 1 ELSE Len(Head(as).map))
         + SuppliedConditions(Tail(as))

\* The conditions of the WHERE clause of a sent statement (none: <<>>).
WhereOf(q) == IF q.text.where = <<>> THEN <<>> ELSE q.text.where[1]
Range(seq) == {seq[i] : i \in 1..Len(seq)}
UpTo(from, count) == [i \in 1..count |-> from + i - 1]

\* C2: Model.update either throws before sending anything or sends an
\* UPDATE that carries a WHERE clause.
C2_UpdateNeverUnfiltered ==
    qResult.op = "Model.update"
        => \/ sent = <<>> /\ qResult.kind = "threw"
           \/ /\ Len(sent) = 1
              /\ sent[1].text.verb = "UPDATE"
              /\ sent[1].text.where # <<>>

\* C3: delete() and Model.delete(options) throw and send nothing when no
\* condition was given; otherwise they send one DELETE with a WHERE clause
\* of the given conditions and return the provider's affected-row count as
\* a number, 0 when it reports none.
C3_DeleteGate ==
    qResult.op \in {"delete", "Model.delete"}
        => IF SuppliedConditions(calls) = 0
           THEN /\ sent = <<>>
                /\ qResult.kind = "threw"
                /\ qResult.err \in {ErrDeleteNoWhere, ErrModelDeleteNoWhere}
           ELSE /\ Len(sent) = 1
                /\ sent[1].text.verb = "DELETE"
                /\ Len(WhereOf(sent[1])) = SuppliedConditions(calls)
                /\ IF qResult.reply.ok
                   THEN /\ qResult.kind = "returned"
                        /\ qResult.ret \in {<<n>> : n \in 0..2}
                        /\ qResult.ret =
                             <<IF qResult.reply.rowCount = NullRowCount
                               THEN 0 ELSE qResult.reply.rowCount>>
                   ELSE qResult.kind = "threw"

C3_Witness ==
    /\ qResult.op = "Model.delete"
    /\ Len(sent) = 1
    /\ qResult.reply.ok
    /\ qResult.reply.rowCount = NullRowCount
    /\ qResult.ret = <<0>>

\* C4: in the statement sent by select, count, delete and first the WHERE
\* clause uses as many distinct placeholders as there are parameters, and
\* the placeholders are $1, $2, ... in the order the values were supplied.
C4_WherePlaceholdersMatchParams ==
    (qResult.op \in {"select", "count", "delete", "first"} /\ Len(sent) = 1)
        => /\ sent[1].params = SuppliedValues(calls)
           /\ Cardinality(Range(PhList(WhereOf(sent[1])))) = Len(sent[1].params)
           /\ PhList(WhereOf(sent[1])) = UpTo(1, Len(sent[1].params))

----------------------------------------------------------------------------
\* Properties of insert, of the static Model operations and of instances

\* The column/value pairs an INSERT carries.
SentRow(q) == [i \in 1..Len(q.params) |-> [key |-> q.text.columns[i], val |-> q.params[i]]]

\* C12: on a uuid table an INSERT sent by insert() / Model.create() carries
\* a generated identifier when the data has no primary-key field and carries
\* exactly the supplied identifier when it has one, whatever its value; on
\* a serial table the INSERT carries the data as given.
C12_IdentifierPersisted ==
    (qResult.op \in {"insert", "Model.create"} /\ Len(sent) = 1)
        => LET row == SentRow(sent[1])
               data == qResult.data
           IN IF qb.primaryKeyType = "uuid"
              THEN IF HasKey(data, qb.primaryKey)
                   THEN row = data
                   ELSE /\ HasKey(row, qb.primaryKey)
                        /\ ValueOf(row, qb.primaryKey) \in GeneratedIds
                        /\ Without(row, qb.primaryKey) = data
              ELSE row = data

\* C13: save() on an instance whose primary-key field is unset sends one
\* INSERT of all own data fields and copies every returned column onto the
\* instance; on an instance whose primary-key field is set, whatever its
\* value, it sends one UPDATE with WHERE primaryKey = that value and SET of
\* all other own data fields, and the primary key is the same afterwards.
C13_SaveByPrimaryKey ==
    qResult.op = "save"
        => LET self == input.data
               primaryKey == GetPrimaryKey(input.cls)
               others == Without(self, primaryKey)
           IN /\ Len(sent) = 1
              /\ IF HasKey(self, primaryKey)
                 THEN /\ sent[1].text.verb = "UPDATE"
                      /\ sent[1].text.set =
                            [i \in 1..Len(others) |-> <<Txt(others[i].key), Txt("="), Ph(i)>>]
                      /\ WhereOf(sent[1]) =
                            <<(<<Txt(primaryKey), Txt("="), Ph(Len(others) + 1)>>)>>
                      /\ sent[1].params = ValuesOf(others) \o <<ValueOf(self, primaryKey)>>
                      /\ HasKey(inst, primaryKey)
                      /\ ValueOf(inst, primaryKey) = ValueOf(self, primaryKey)
                 ELSE /\ sent[1].text.verb = "INSERT"
                      /\ Without(SentRow(sent[1]), primaryKey) = self
                      /\ qResult.kind = "returned" =>
                            \A i \in 1..Len(qResult.reply.rows[1]) :
                                LET f == qResult.reply.rows[1][i]
                                IN HasKey(inst, f.key) /\ ValueOf(inst, f.key) = f.val

\* C14: delete() on an instance whose primary-key field is unset throws and
\* sends nothing; on an instance whose primary-key field is set, whatever
\* its value, it sends one DELETE with WHERE primaryKey = that value and
\* returns true exactly when the affected-row count is greater than 0.
C14_InstanceDelete ==
    qResult.op = "instance.delete"
        => LET self == input.data
               primaryKey == GetPrimaryKey(input.cls)
           IN IF ~HasKey(self, primaryKey)
              THEN /\ sent = <<>>
                   /\ qResult.kind = "threw"
                   /\ qResult.err = ErrNoPrimaryKeyValue
              ELSE /\ Len(sent) = 1
                   /\ sent[1].text.verb = "DELETE"
                   /\ WhereOf(sent[1]) = <<(<<Txt(primaryKey), Txt("="), Ph(1)>>)>>
                   /\ sent[1].params = <<ValueOf(self, primaryKey)>>
                   /\ qResult.reply.ok =>
                        /\ qResult.kind = "returned"
                        /\ qResult.ret = <<qResult.reply.rowCount > 0>>

\* The entries of the field-to-value mappings given to where(), in call
\* and key order.
RECURSIVE SuppliedEntries(_)
SuppliedEntries(as) ==
    IF as = <<>> THEN <<>> ELSE Head(as).map \o SuppliedEntries(Tail(as))

C16_FindAllAppliesOptions ==
    qResult.op = "Model.findAll"
        => LET options == input.options
               q == sent[1].text
           IN /\ Len(sent) = 1
              /\ q.verb = "SELECT"
              /\ options.where # <<>> =>
                    /\ Len(WhereOf(sent[1])) = Len(options.where[1])
                    /\ sent[1].params = EntryValues(options.where[1])
              /\ options.where = <<>> => q.where = <<>>
              /\ options.orderBy # <<>> =>
                    /\ q.orderBy # <<>>
                    /\ Len(q.orderBy[1]) = Len(options.orderBy[1].orders)
                    /\ \A i \in 1..Len(q.orderBy[1]) :
                        LET o == options.orderBy[1].orders[i]
                        IN /\ q.orderBy[1][i].column = o.column
                           /\ q.orderBy[1][i].direction =
                                IF o.direction = "" THEN "ASC" ELSE o.direction
              /\ options.orderBy = <<>> => q.orderBy = <<>>
              /\ q.limit = options.limit
              /\ q.offset = options.offset

\* The table name the README derives from a class name: lower-cased, a
\* final 'y' pluralized with 'ies', 's' appended otherwise.
Pluralized(name) ==
    LET lower == ToLowerCase(name)
    IN IF lower[Len(lower)] = "y"
       THEN Join(SubSeq(lower, 1, Len(lower) - 1)) \o "ies"
       ELSE Join(lower) \o "s"

\* C17: a statement of a model class goes to the class's static tableName
\* when that is set, and otherwise to the name derived from the class name
\* as the README states (User: users, ProductCategory: productcategories).
C17_DerivedTableName ==
    (input.op \notin {"none", "Model.raw"} /\ Len(sent) = 1)
        => sent[1].text.table =
             IF input.cls.tableName # "" THEN input.cls.tableName
             ELSE Pluralized(input.cls.name)

\* The terminal operations of a QueryBuilder.
BuilderOps == {"select", "insert", "update", "delete", "count", "first", "raw"}

\* C19: every statement of a terminal operation of a builder constructed
\* with a pinned connection, and of a Model operation given options.client,
\* is executed on that connection; without one it is executed on the pool.
C19_PinnedConnection ==
    qResult.op # "none"
        => LET client == IF qResult.op \in BuilderOps THEN qb.client
                         ELSE input.options.client
           IN \A i \in 1..Len(sent) :
                sent[i].executor = IF client # NoClient THEN client ELSE Pool

C19_Witness ==
    /\ qResult.op = "insert"
    /\ qb.client = "pinned"
    /\ Len(sent) = 1
    /\ sent[1].executor = "pinned"
    /\ sent[1].text.verb = "INSERT"

----------------------------------------------------------------------------
\* Properties of the ordering and paging clauses

\* The value of the last call of one of the kinds, <<>> when none was made.
RECURSIVE LastOf(_, _)
LastOf(kinds, cs) ==
    IF cs = <<>> THEN <<>>
    ELSE IF cs[Len(cs)].kind \in kinds THEN <<cs[Len(cs)].val>>
    ELSE LastOf(kinds, SubSeq(cs, 1, Len(cs) - 1))

\* The ORDER BY list a call's entries stand for: a direction left out is ASC.
Rendered(orders) ==
    [i \in 1..Len(orders) |->
        Order(orders[i].column, IF orders[i].direction = "" THEN "ASC" ELSE orders[i].direction)]

----------------------------------------------------------------------------
\* Properties of the connection provider

\* A step in which Database method op was called.
DbStep(op) == nDb' = nDb + 1 /\ dbLast'.op = op

\* C18: connect() while connected throws and keeps the pool, and succeeds
\* with a new pool while disconnected; query() without a pinned connection
\* and getClient() while disconnected throw 'not connected' and hand no
\* statement to anyone; disconnect() while disconnected changes nothing;
\* a disconnect() that completes leaves the provider disconnected.
C18_TwoStateProvider ==
    [][ /\ DbStep("connect") =>
            IF pool # NoPool
            THEN /\ dbLast'.err = ErrAlreadyConnected
                 /\ pool' = pool /\ poolsMade' = poolsMade
            ELSE /\ dbLast'.err = NoError
                 /\ pool' # NoPool /\ pool'.id = poolsMade + 1
        /\ (DbStep("query") /\ dbLast'.client = NoClient /\ pool = NoPool) =>
            /\ dbLast'.err = ErrNotConnected
            /\ dbLog' = dbLog /\ pool' = NoPool
        /\ (DbStep("getClient") /\ pool = NoPool) =>
            /\ dbLast'.err = ErrNotConnected
            /\ dbLog' = dbLog /\ pool' = NoPool
        /\ (DbStep("disconnect") /\ pool = NoPool) =>
            /\ dbLast'.err = NoError
            /\ pool' = NoPool /\ ending' = ending /\ dbLog' = dbLog
        /\ (dbLast'.op = "disconnected" /\ ending' = ending - 1 /\ dbLast'.err = NoError) =>
            pool' = NoPool
      ]_vars

C18_Witness ==
    /\ dbLast = [op |-> "connect", client |-> NoClient, err |-> NoError]
    /\ poolsMade = 2
    /\ pool.id = 2
    /\ ending = 0
    /\ nDb = 3

----------------------------------------------------------------------------
\* Properties of single terminal operations

\* A step in which terminal operation op of the builder ended.
OpStep(op) == nOps' = nOps + 1 /\ qResult'.op = op

\* C21: first() sends the SELECT that limit(1).select() sends on the same
\* builder: the builder's WHERE, parameters, ORDER BY and OFFSET with
\* LIMIT 1 in place of any limit set before; it leaves the builder as
\* limit(1) leaves it and returns the first row of the result, or null
\* when the result is empty.
C21_FirstIsLimitOneSelect ==
    [][ OpStep("first") =>
          /\ Len(sent') = 1
          /\ sent'[1].text = [verb |-> "SELECT", table |-> qb.tableName, columns |-> <<"*">>,
                              set |-> <<>>, where |-> BuildWhereClause(qb),
                              orderBy |-> qb.orderByClause, limit |-> <<1>>,
                              offset |-> qb.offsetClause]
          /\ sent'[1].params = qb.whereParams
          /\ qb' = [qb EXCEPT !.limitClause = <<1>>]
          /\ qResult'.reply.ok =>
                /\ qResult'.kind = "returned"
                /\ qResult'.ret = IF qResult'.reply.rows = <<>> THEN <<>>
                                  ELSE <<qResult'.reply.rows[1]>>
      ]_vars

C21_Witness ==
    /\ qResult.op = "first"
    /\ fluent = <<[kind |-> "limit", val |-> <<10>>]>>
    /\ Len(calls) = 2
    /\ Len(sent) = 1
    /\ sent[1].text.limit = <<1>>
    /\ qb.limitClause = <<1>>
    /\ Len(qResult.reply.rows) = 2
    /\ qResult.ret = <<Row1>>

\* C22: raw(sql, params) sends exactly the given text and parameters, with
\* no WHERE, ORDER BY, LIMIT or OFFSET of the builder and none of its WHERE
\* parameters, and leaves the builder as it was.
C22_RawBypassesState ==
    [][ OpStep("raw") =>
          /\ Len(sent') = 1
          /\ sent'[1].text.verb = qResult'.data.sql
          /\ sent'[1].params = qResult'.data.params
          /\ sent'[1].text.table = ""
          /\ sent'[1].text.where = <<>>
          /\ sent'[1].text.orderBy = <<>>
          /\ sent'[1].text.limit = <<>>
          /\ sent'[1].text.offset = <<>>
          /\ qb' = qb
      ]_vars

C22_Witness ==
    /\ qResult.op = "raw"
    /\ qResult.data.params = <<18>>
    /\ qb.whereParams = <<1, 1>>
    /\ qb.orderByClause # <<>> /\ qb.limitClause = <<5>> /\ qb.offsetClause = <<20>>
    /\ Len(sent) = 1
    /\ sent[1].params = <<18>>

\* C23 as stated: every call of select, insert, update, delete, count or
\* raw sends exactly one statement, and when the provider fails the
\* operation rejects with the provider's error.
C23_AsStated ==
    qResult.op \in {"select", "insert", "update", "delete", "count", "raw"}
        => /\ Len(sent) = 1
           /\ ~qResult.reply.ok =>
                qResult.kind = "threw" /\ qResult.err = ErrQuery("STMT")

\* C23: delete() on a builder without conditions throws its own error and
\* sends nothing; every other call of select, insert, update, delete,
\* count or raw sends exactly one statement, returns when the provider
\* answers and rejects with the provider's error when the provider fails.
C23_OneStatementNoRetry ==
    qResult.op \in {"select", "insert", "update", "delete", "count", "raw"}
        => IF qResult.op = "delete" /\ qb.whereConditions = <<>>
           THEN /\ sent = <<>>
                /\ qResult.kind = "threw" /\ qResult.err = ErrDeleteNoWhere
           ELSE /\ Len(sent) = 1
                /\ IF qResult.reply.ok
                   THEN qResult.kind = "returned" /\ qResult.err = NoError
                   ELSE qResult.kind = "threw" /\ qResult.err = ErrQuery("STMT")

C23_Witness ==
    /\ qResult.op = "insert"
    /\ ~qResult.reply.ok
    /\ Len(sent) = 1
    /\ sent[1].text.verb = "INSERT"
    /\ qResult.kind = "threw"
    /\ qResult.err = ErrQuery("STMT")

----------------------------------------------------------------------------
\* Properties of overlapping calls on one Transaction

\* How many COMMIT / ROLLBACK statements the pinned connection was sent.
EndStatements == Cardinality({i \in 1..Len(clientLog) : clientLog[i].text \in {"COMMIT", "ROLLBACK"}})

\* C24: whenever two commit() / rollback() calls on one Transaction overlap
\* (the second is made before the first one's statement has ended), at
\* most one of COMMIT and ROLLBACK has been sent; and the pinned connection
\* is never released more than once.
C24_OverlapSafe ==
    /\ released <= 1
    /\ Len(awaiting) >= 2 => EndStatements <= 1

----------------------------------------------------------------------------
\* Properties of the helper's outcome

\* C25: when the helper has settled, it resolved only if the transaction
\* ended committed, and if it rejected the transaction did not end
\* committed, whatever the unit of work did, its own trx.commit() and
\* trx.rollback() calls included.
C25_OutcomeMatchesState ==
    HelperDone
        => /\ outcome.kind = "resolved" => committed
           /\ outcome.kind = "rejected" => ~committed

----------------------------------------------------------------------------
\* Properties of a Transaction whose connection has been released

\* C26: once the transaction is committed or rolled back and its connection
\* is released, a call of begin(), commit() or rollback() sends no statement
\* on that connection.
C26_NothingSentAfterRelease ==
    [][ ((committed \/ rolledBack) /\ released > 0 /\ nCalls' = nCalls + 1)
            => clientLog' = clientLog ]_vars

----------------------------------------------------------------------------
\* Properties of what a terminal operation leaves behind

----------------------------------------------------------------------------
\* Properties of save() on an instance whose row is gone

\* An UPDATE sent by save() was answered with zero rows.
SaveMatchedNoRow ==
    /\ qResult.op = "save"
    /\ Len(sent) > 0
    /\ sent[1].text.verb = "UPDATE"
    /\ qResult.reply.ok
    /\ qResult.reply.rowCount = 0

\* C28: when the UPDATE of save() matches no row, save() sends no INSERT
\* (the UPDATE is its only statement), returns without an error and leaves
\* every field of the instance as it was.
C28_SaveOfMissingRow ==
    SaveMatchedNoRow
        => /\ Len(sent) = 1
           /\ qResult.kind = "returned"
           /\ qResult.err = NoError
           /\ inst = input.data

\* save() of an instance with key 7 and two other fields matched no row.
C28_Witness ==
    /\ SaveMatchedNoRow
    /\ HasKey(input.data, "id")
    /\ ValueOf(input.data, "id") = 7
    /\ Len(input.data) = 3

----------------------------------------------------------------------------
\* Properties of materialization and toJSON()

\* C29: toJSON() of the instance that find, findAll, findOne, create or
\* Model.update built from a row the provider returned equals that row:
\* the same columns in the same order with the same values, the primary key
\* included, and no other key.
C29_ToJSONRoundTrip ==
    (qResult.op \in Materializing /\ qResult.json # <<>>)
        => /\ Len(qResult.json) = Len(qResult.ret)
           /\ \A i \in 1..Len(qResult.json) :
                /\ qResult.json[i] = qResult.reply.rows[i]
                /\ HasKey(qResult.json[i], GetPrimaryKey(input.cls))

\* The two instances of a findAll have been serialized.
C29_Witness ==
    /\ qResult.op = "Model.findAll"
    /\ Len(qResult.json) = 2
    /\ qResult.reply.rows = <<Row1, Row2>>

----------------------------------------------------------------------------
\* Properties of the pool options

\* The optional settings of a DatabaseConfig.
OptionalSettings ==
    {"host", "port", "ssl", "max", "idleTimeoutMillis", "connectionTimeoutMillis"}

\* C30: the pool that connect(config) created has, for every optional
\* setting, the value the caller supplied when one was supplied, 0 included,
\* and the stated default only when the setting is absent.
C30_SuppliedSettingsUsed ==
    pool # NoPool
        => \A s \in OptionalSettings :
            pool.options[s] = IF pool.config[s] # <<>>
                              THEN pool.config[s][1]
                              ELSE Defaults[s]

====
